---- MODULE Spec2Model ----
(***************************************************************************)
(* LoRa level-2 protocol (loraL2.py): frame construction and parsing of    *)
(* LoRaLevel2Protocol, the retransmission configuration, and the transmit  *)
(* and receive entry points that hand frames to the radio modem.           *)
(*                                                                         *)
(* Bytes are integers 0..255, byte strings are sequences of bytes          *)
(* (1-based here, 0-based in the source).                                  *)
(***************************************************************************)
EXTENDS Integers, Sequences, FiniteSets, TLC

VARIABLES
    device_id_arg,         \* device_id argument each instance was constructed with (-1 for None)
    device_id,             \* self.device_id of each protocol instance
    sequence_number,       \* self.sequence_number of each protocol instance
    op,                    \* the call made last: its name and the instance it was made on
    destination_id,        \* destination_id argument of the last create_frame call
    payload,               \* payload argument of the last create_frame call
    frame,                 \* bytes returned by the last create_frame call (<<>> when it raised)
    raised,                \* exception raised by the last call ("" when it returned)
    received_frame,        \* buffer handed to the last parse_frame call
    received_frame_details,\* value returned by the last parse_frame call
    advances,              \* history: executions of line 41 per instance
    emitted,               \* history: sequence bytes of the frames each instance returned, in order
    retransmission,        \* dict returned by the last retransmit_strategy call
    modem_sent,            \* frames handed to modem.send by the last transmit call
    ack_pending,           \* environment: a matching ACK frame is what modem.recv would return next
    rx,                    \* bytes returned by modem.recv in the last receive call (<<>> on timeout)
    result                 \* value returned by the last transmit / receive call

vars == <<device_id_arg, device_id, sequence_number, op, destination_id,
          payload, frame, raised, received_frame, received_frame_details,
          advances, emitted, retransmission, modem_sent, ack_pending, rx, result>>

arqVars == <<retransmission, modem_sent, ack_pending, rx, result>>

-----------------------------------------------------------------------------
(* Bounds of the model *)

\* create_frame calls of the sender in the codec specification
MaxCalls == 1
\* create_frame calls of the sender in the sequence specification
MaxFrames == 258
\* longest payload enumerated byte by byte
MaxLen == 3
\* largest max_retries argument tried
MaxRetriesArg == 4
\* create_frame calls of the receiver in the pair specification
MaxPeerFrames == 2

-----------------------------------------------------------------------------
(* Protocol constants *)

FRAME_HEADER_as_footer == <<85>>

FRAME_HEADER == <<170>>
FRAME_FOOTER == <<85>>
MAX_PAYLOAD_SIZE_254 == 255 - 1

MAX_PAYLOAD_SIZE == 255

Instances == {"sender", "receiver"}

-----------------------------------------------------------------------------
(* Python and struct primitives *)

Min(a, b) == IF a < b THEN a ELSE b
Max(a, b) == IF a > b THEN a ELSE b

\* resolution of a slice bound against a sequence of length n
SliceIndex(n, i) == IF i < 0 THEN Max(n + i, 0) ELSE Min(i, n)

\* s[i:j]
Slice(s, i, j) == SubSeq(s, SliceIndex(Len(s), i) + 1, SliceIndex(Len(s), j))

\* s[i:]
SliceFrom(s, i) == SubSeq(s, SliceIndex(Len(s), i) + 1, Len(s))

\* struct.pack('>H', v) on a value outside 0..65535: raises struct.error where
\* the struct module checks the range (CPython), truncates where it does not
\* (MicroPython)
pack_H_raises(v, checks) == checks /\ (v < 0 \/ v > 65535)

pack_H_little(v) == <<v % 256, (v \div 256) % 256>>

\* struct.pack('>H', v): two bytes, most significant first
pack_H(v) == <<(v \div 256) % 256, v % 256>>

\* struct.unpack('>H', b)[0] for a two-byte b
unpack_H(b) == b[1] * 256 + b[2]

\* struct.unpack('>H', b) raises struct.error unless b has two bytes
unpack_H_raises(b) == Len(b) # 2

\* bytearray.append(v) raises ValueError unless v is a byte
append_raises(v) == v < 0 \/ v > 255

-----------------------------------------------------------------------------
(* LoRaLevel2Protocol.__init__ *)

\* values random.randint(0, 0xFFFF) is represented by
RandomIds == {0, 65535}

\* device_id arguments of the constructor: None, and explicit identities
DeviceIdArgs == {-1, 0, 4660, 65535}

\* device_id or random.randint(0, 0xFFFF); arg -1 stands for None
InitDeviceIds(arg) == IF arg = -1 \/ arg = 0 THEN RandomIds ELSE {arg}

-----------------------------------------------------------------------------
(* LoRaLevel2Protocol.create_frame *)

crc_other == 1 + 1

\* crc = 1
crc == 1

next_sequence_number_mod255(seq) == (seq + 1) % 255

next_sequence_number_skip(seq) == (seq + 2) % 256

\* self.sequence_number = (self.sequence_number + 1) % 256
next_sequence_number(seq) == (seq + 1) % 256

create_frame_late_check(id, seq, dst, pl, checks) ==
    LET next == next_sequence_number(seq)
        covered == pack_H(id) \o pack_H(dst) \o <<next>> \o <<Len(pl)>> \o pl
    IN  IF Len(pl) > MAX_PAYLOAD_SIZE
        THEN [raised |-> "ValueError", sequence_number |-> next, frame |-> <<>>]
        ELSE IF pack_H_raises(id, checks) \/ pack_H_raises(dst, checks)
        THEN [raised |-> "struct.error", sequence_number |-> next, frame |-> <<>>]
        ELSE IF append_raises(next) \/ append_raises(Len(pl))
        THEN [raised |-> "ValueError", sequence_number |-> next, frame |-> <<>>]
        ELSE [raised |-> "", sequence_number |-> next,
              frame |-> FRAME_HEADER \o covered \o pack_H(crc) \o FRAME_FOOTER]

\* outcome of create_frame(self, dst, pl) on an instance with identity id and
\* counter seq: the exception raised, the counter afterwards, the bytes returned
create_frame(id, seq, dst, pl, checks) ==
    LET next == next_sequence_number(seq)
        covered == pack_H(id) \o pack_H(dst) \o <<next>> \o <<Len(pl)>> \o pl
    IN  IF Len(pl) > MAX_PAYLOAD_SIZE
        THEN [raised |-> "ValueError", sequence_number |-> seq, frame |-> <<>>]
        ELSE IF pack_H_raises(id, checks) \/ pack_H_raises(dst, checks)
        THEN [raised |-> "struct.error", sequence_number |-> next, frame |-> <<>>]
        ELSE IF append_raises(next) \/ append_raises(Len(pl))
        THEN [raised |-> "ValueError", sequence_number |-> next, frame |-> <<>>]
        ELSE [raised |-> "", sequence_number |-> next,
              frame |-> FRAME_HEADER \o covered \o pack_H(crc) \o FRAME_FOOTER]

-----------------------------------------------------------------------------
(* LoRaLevel2Protocol.parse_frame *)

None == [is_none |-> TRUE, source_id |-> 0, destination_id |-> 0,
         sequence_number |-> 0, payload |-> <<>>]

\* calculated_crc = 1
calculated_crc == 1

parse_frame_any_header(buf) ==
    IF Len(buf) < 10 THEN None
    ELSE IF SliceFrom(buf, -1) # FRAME_FOOTER THEN None
    ELSE IF unpack_H_raises(Slice(buf, 1, 3)) \/ unpack_H_raises(Slice(buf, 3, 5))
            \/ unpack_H_raises(Slice(buf, -3, -1))
    THEN None
    ELSE LET payload_len == buf[7]
             received_crc == unpack_H(Slice(buf, -3, -1))
         IN  IF received_crc # calculated_crc THEN None
             ELSE [is_none |-> FALSE,
                   source_id |-> unpack_H(Slice(buf, 1, 3)),
                   destination_id |-> unpack_H(Slice(buf, 3, 5)),
                   sequence_number |-> buf[6],
                   payload |-> Slice(buf, 7, 7 + payload_len)]

parse_frame(buf) ==
    IF Len(buf) < 10 THEN None
    ELSE IF Slice(buf, 0, 1) # FRAME_HEADER \/ SliceFrom(buf, -1) # FRAME_FOOTER THEN None
    ELSE IF unpack_H_raises(Slice(buf, 1, 3)) \/ unpack_H_raises(Slice(buf, 3, 5))
            \/ unpack_H_raises(Slice(buf, -3, -1))
    THEN None
    ELSE LET payload_len == buf[7]
             received_crc == unpack_H(Slice(buf, -3, -1))
             frame_for_crc == Slice(buf, 1, -3)
         IN  IF received_crc # calculated_crc THEN None
             ELSE [is_none |-> FALSE,
                   source_id |-> unpack_H(Slice(buf, 1, 3)),
                   destination_id |-> unpack_H(Slice(buf, 3, 5)),
                   sequence_number |-> buf[6],
                   payload |-> Slice(buf, 7, 7 + payload_len)]

\* except (struct.error, IndexError)
Caught == {"struct.error", "IndexError"}

\* the exception the body of the try block raises on buf ("" when it runs
\* through): the unpacks and the two index reads, in source order
try_raises(buf) ==
    IF unpack_H_raises(Slice(buf, 1, 3)) \/ unpack_H_raises(Slice(buf, 3, 5))
    THEN "struct.error"
    ELSE IF Len(buf) <= 5 \/ Len(buf) <= 6 THEN "IndexError"
    ELSE IF unpack_H_raises(Slice(buf, -3, -1)) THEN "struct.error"
    ELSE ""

parse_frame_raised_unguarded(buf) == try_raises(buf)

\* the exception that leaves parse_frame(buf) ("" when it returns)
parse_frame_raised(buf) ==
    IF Len(buf) < 10 THEN ""
    ELSE IF Slice(buf, 0, 1) # FRAME_HEADER \/ SliceFrom(buf, -1) # FRAME_FOOTER THEN ""
    ELSE IF try_raises(buf) \in Caught THEN ""
    ELSE try_raises(buf)

-----------------------------------------------------------------------------
(* Inputs *)

\* b'Hello, LoRa World!'
Hello == <<72, 101, 108, 108, 111, 44, 32, 76, 111, 82, 97, 32, 87, 111, 114, 108, 100, 33>>

\* a payload of n equal bytes
Fill(n) == [i \in 1..n |-> 0]

\* byte values the enumerated payloads are made of: the two checksum bytes,
\* the footer and the header
PayloadBytes == {0, 1, 85}

ShortPayloads == UNION {[1..n -> PayloadBytes] : n \in 0..MaxLen}

\* payloads at the size boundary
BoundaryPayloads == {Fill(255), Fill(256)}

\* destinations: 16-bit values, and one that does not fit in 16 bits
DestinationIds == {0, 22136, 65535, 65536}

\* the byte b with bit k inverted
FlipBit(b, k) == IF (b \div (2 ^ k)) % 2 = 1 THEN b - 2 ^ k ELSE b + 2 ^ k

\* the buffer f with bit k of its byte at offset i (0-based) inverted
Flipped(f, i, k) == [j \in 1..Len(f) |-> IF j = i + 1 THEN FlipBit(f[j], k) ELSE f[j]]

Prefixes(f) == {SubSeq(f, 1, n) : n \in 0..(Len(f) - 1)}

Flips(f) == {Flipped(f, i, k) : i \in 0..(Len(f) - 1), k \in 0..7}

\* what may arrive when f was transmitted: f, a truncation of f, f with one bit inverted
Buffers(f) == {f} \cup Prefixes(f) \cup Flips(f)

-----------------------------------------------------------------------------
(* Operations *)

CreateFrame_shared_counter(self, dst, pl, checks) ==
    LET r == create_frame(device_id[self], sequence_number[self], dst, pl, checks)
        advanced == Len(pl) <= MAX_PAYLOAD_SIZE
    IN  /\ op' = [name |-> "create_frame", self |-> self]
        /\ destination_id' = dst
        /\ payload' = pl
        /\ sequence_number' = [n \in Instances |-> r.sequence_number]
        /\ raised' = r.raised
        /\ frame' = r.frame
        /\ advances' = [advances EXCEPT ![self] = IF advanced THEN @ + 1 ELSE @]
        /\ emitted' = [emitted EXCEPT ![self] =
                          IF r.raised = "" THEN Append(@, r.frame[6]) ELSE @]
        /\ received_frame' = <<>>
        /\ received_frame_details' = None
        /\ UNCHANGED <<device_id_arg, device_id>>
        /\ UNCHANGED arqVars

CreateFrame(self, dst, pl, checks) ==
    LET r == create_frame(device_id[self], sequence_number[self], dst, pl, checks)
        advanced == Len(pl) <= MAX_PAYLOAD_SIZE
    IN  /\ op' = [name |-> "create_frame", self |-> self]
        /\ destination_id' = dst
        /\ payload' = pl
        /\ sequence_number' = [sequence_number EXCEPT ![self] = r.sequence_number]
        /\ raised' = r.raised
        /\ frame' = r.frame
        /\ advances' = [advances EXCEPT ![self] = IF advanced THEN @ + 1 ELSE @]
        /\ emitted' = [emitted EXCEPT ![self] =
                          IF r.raised = "" THEN Append(@, r.frame[6]) ELSE @]
        /\ received_frame' = <<>>
        /\ received_frame_details' = None
        /\ UNCHANGED <<device_id_arg, device_id>>
        /\ UNCHANGED arqVars

ParseFrame_advancing(self, buf) ==
    /\ op' = [name |-> "parse_frame", self |-> self]
    /\ received_frame' = buf
    /\ received_frame_details' = parse_frame(buf)
    /\ raised' = parse_frame_raised(buf)
    /\ sequence_number' = [sequence_number EXCEPT ![self] = (@ + 1) % 256]
    /\ UNCHANGED <<device_id_arg, device_id, destination_id, payload, frame,
                   advances, emitted>>
    /\ UNCHANGED arqVars

ParseFrame(self, buf) ==
    /\ op' = [name |-> "parse_frame", self |-> self]
    /\ received_frame' = buf
    /\ received_frame_details' = parse_frame(buf)
    /\ raised' = parse_frame_raised(buf)
    /\ UNCHANGED <<device_id_arg, device_id, sequence_number, destination_id,
                   payload, frame, advances, emitted>>
    /\ UNCHANGED arqVars

\* retransmit_strategy(self, max_retries, timeout): builds and returns the dict
RetransmitStrategy(self, max_retries, timeout) ==
    /\ op' = [name |-> "retransmit_strategy", self |-> self]
    /\ retransmission' = [max_retries |-> max_retries, timeout |-> timeout]
    /\ raised' = ""
    /\ UNCHANGED <<device_id_arg, device_id, sequence_number, destination_id,
                   payload, frame, received_frame, received_frame_details,
                   advances, emitted>>
    /\ UNCHANGED <<modem_sent, ack_pending, rx, result>>

\* timeout arguments, in seconds (2 for the default 2.0)
Timeouts == {1, 2, 5}

\* the frame a peer with identity src would answer a frame of sequence number
\* seq from dst with: an empty frame carrying that sequence number
AckFrame(src, dst, seq) ==
    FRAME_HEADER \o pack_H(src) \o pack_H(dst) \o <<seq, 0>> \o pack_H(crc) \o FRAME_FOOTER

\* transmit(message): fresh sender 0x1234 and receiver 0x5678, one frame with
\* the fixed payload, one modem.send; returns None.  ack: whether the peer
\* answers the transmission with a matching ACK
Transmit(message, checks, ack) ==
    \E a \in InitDeviceIds(4660), b \in InitDeviceIds(22136) :
      LET r == create_frame(a, 0, b, Hello, checks)
      IN  /\ op' = [name |-> "transmit", self |-> "sender"]
          /\ device_id_arg' = [n \in Instances |-> IF n = "sender" THEN 4660 ELSE 22136]
          /\ device_id' = [n \in Instances |-> IF n = "sender" THEN a ELSE b]
          /\ sequence_number' =
                [n \in Instances |-> IF n = "sender" THEN r.sequence_number ELSE 0]
          /\ advances' = [n \in Instances |-> IF n = "sender" THEN 1 ELSE 0]
          /\ emitted' = [n \in Instances |->
                            IF n = "sender" /\ r.raised = "" THEN <<r.frame[6]>> ELSE <<>>]
          /\ destination_id' = b
          /\ payload' = Hello
          /\ frame' = r.frame
          /\ raised' = r.raised
          /\ modem_sent' = IF r.raised = "" THEN <<r.frame>> ELSE <<>>
          /\ ack_pending' = (ack /\ r.raised = "")
          /\ rx' = <<>>
          /\ result' = "None"
          /\ received_frame' = <<>>
          /\ received_frame_details' = None
          /\ UNCHANGED retransmission

\* what modem.recv(timeout_ms=5000) may return: nothing (timeout), the frame on
\* the air whole or cut short, or the pending ACK
Received ==
    {<<>>}
    \cup {modem_sent[i] : i \in 1..Len(modem_sent)}
    \cup {SubSeq(modem_sent[i], 1, 9) : i \in 1..Len(modem_sent)}
    \cup (IF ack_pending
          THEN {AckFrame(device_id["receiver"], device_id["sender"],
                         sequence_number["sender"])}
          ELSE {})

\* receive(): fresh receiver 0x5678, one modem.recv, parse_frame of what
\* arrived; returns the details, or None on timeout
Receive(recv) ==
    \E b \in InitDeviceIds(22136) :
      /\ op' = [name |-> "receive", self |-> "receiver"]
      /\ device_id_arg' = [device_id_arg EXCEPT !["receiver"] = 22136]
      /\ device_id' = [device_id EXCEPT !["receiver"] = b]
      /\ sequence_number' = [sequence_number EXCEPT !["receiver"] = 0]
      /\ advances' = [advances EXCEPT !["receiver"] = 0]
      /\ emitted' = [emitted EXCEPT !["receiver"] = <<>>]
      /\ rx' = recv
      /\ received_frame' = IF recv # <<>> THEN recv ELSE received_frame
      /\ received_frame_details' =
            IF recv # <<>> THEN parse_frame(recv) ELSE received_frame_details
      /\ result' = IF recv # <<>> /\ ~parse_frame(recv).is_none THEN "details" ELSE "None"
      /\ raised' = IF recv # <<>> THEN parse_frame_raised(recv) ELSE ""
      /\ ack_pending' = FALSE
      /\ UNCHANGED <<destination_id, payload, frame, retransmission, modem_sent>>

-----------------------------------------------------------------------------
(* Codec specification: the sender builds a frame, the receiver parses what *)
(* arrives of it: the frame as sent, truncated, or with one bit inverted    *)

InitCommon ==
    /\ sequence_number = [n \in Instances |-> 0]
    /\ op = [name |-> "__init__", self |-> "receiver"]
    /\ destination_id = 0
    /\ payload = <<>>
    /\ frame = <<>>
    /\ raised = ""
    /\ received_frame = <<>>
    /\ received_frame_details = None
    /\ advances = [n \in Instances |-> 0]
    /\ emitted = [n \in Instances |-> <<>>]
    /\ retransmission = [max_retries |-> -1, timeout |-> -1]
    /\ modem_sent = <<>>
    /\ ack_pending = FALSE
    /\ rx = <<>>
    /\ result = "None"

InitCodec ==
    /\ InitCommon
    /\ \E arg \in {-1, 4660} : \E id \in InitDeviceIds(arg) :
          /\ device_id_arg = [n \in Instances |-> IF n = "sender" THEN arg ELSE 22136]
          /\ device_id = [n \in Instances |-> IF n = "sender" THEN id ELSE 22136]

NextCodec ==
    \/ /\ advances["sender"] < MaxCalls
       /\ \E dst \in DestinationIds, pl \in ShortPayloads \cup BoundaryPayloads,
             checks \in BOOLEAN : CreateFrame("sender", dst, pl, checks)
    \/ /\ frame # <<>>
       /\ op.name = "create_frame"
       /\ \E buf \in Buffers(frame) : ParseFrame("receiver", buf)

SpecCodec == InitCodec /\ [][NextCodec]_vars

-----------------------------------------------------------------------------
(* Sequence specification: one sender producing a long run of frames, each  *)
(* looped back to the receiver as in example_transmission                   *)

InitSeq ==
    /\ InitCommon
    /\ \E arg \in DeviceIdArgs :
          \E a \in InitDeviceIds(arg), b \in InitDeviceIds(22136) :
             /\ device_id_arg = [n \in Instances |-> IF n = "sender" THEN arg ELSE 22136]
             /\ device_id = [n \in Instances |-> IF n = "sender" THEN a ELSE b]

NextSeq ==
    \/ /\ advances["sender"] < MaxFrames
       /\ \E pl \in {<<>>, Fill(256)}, checks \in BOOLEAN :
             CreateFrame("sender", 22136, pl, checks)
    \/ /\ frame # <<>>
       /\ \E buf \in {frame, SubSeq(frame, 1, Len(frame) - 1)} :
             ParseFrame("receiver", buf)
    \/ \E self \in Instances, max_retries \in {3}, timeout \in {2} :
          RetransmitStrategy(self, max_retries, timeout)

SpecSeq == InitSeq /\ [][NextSeq]_vars

-----------------------------------------------------------------------------
(* Pair specification: two instances, each building frames for the other    *)
(* and parsing the frame built last, in any order                           *)

\* the instance that is not n
Peer(n) == IF n = "sender" THEN "receiver" ELSE "sender"

\* create_frame calls allowed to instance n
MaxFramesOf(n) == IF n = "sender" THEN MaxFrames ELSE MaxPeerFrames

NextPair ==
    \/ \E self \in Instances :
          /\ advances[self] < MaxFramesOf(self)
          /\ \E checks \in BOOLEAN :
                CreateFrame(self, device_id[Peer(self)], <<>>, checks)
    \/ /\ frame # <<>>
       /\ \E self \in Instances : ParseFrame(self, frame)

SpecPair == InitSeq /\ [][NextPair]_vars

-----------------------------------------------------------------------------
(* ARQ specification: retransmission configuration, transmit and receive    *)

InitArq ==
    /\ InitCommon
    /\ device_id_arg = [n \in Instances |-> IF n = "sender" THEN 4660 ELSE 22136]
    /\ \E a \in InitDeviceIds(4660), b \in InitDeviceIds(22136) :
          device_id = [n \in Instances |-> IF n = "sender" THEN a ELSE b]

NextArq ==
    \/ \E self \in Instances, max_retries \in 0..MaxRetriesArg, timeout \in Timeouts :
          RetransmitStrategy(self, max_retries, timeout)
    \/ \E message \in {<<>>, Hello}, checks \in BOOLEAN, ack \in BOOLEAN :
          Transmit(message, checks, ack)
    \/ \E recv \in Received : Receive(recv)

SpecArq == InitArq /\ [][NextArq]_vars

-----------------------------------------------------------------------------
(* Properties *)

\* offsets (0-based) of the bytes of frame f that the checksum covers:
\* source ID, destination ID, sequence, length, payload
Covered(f) == 1..(Len(f) - 4)

\* C1 - round trip: parsing the bytes create_frame returned for a 16-bit
\* destination and a payload of 0..255 bytes yields a frame, with the payload
\* and the destination that were passed and the sender's device_id as source.
C1_RoundTrip ==
    (/\ op.name = "parse_frame"
     /\ frame # <<>>
     /\ received_frame = frame
     /\ destination_id \in 0..65535
     /\ Len(payload) <= 255)
    => (/\ ~received_frame_details.is_none
        /\ received_frame_details.payload = payload
        /\ received_frame_details.destination_id = destination_id
        /\ received_frame_details.source_id = device_id["sender"])

C1_Witness ==
    /\ op.name = "parse_frame"
    /\ received_frame = frame
    /\ Len(payload) = 255
    /\ destination_id = 65535
    /\ ~received_frame_details.is_none

\* C2 - corruption detection: a frame with one bit inverted in the bytes the
\* checksum covers is rejected by parse_frame.
C2_CorruptionDetected ==
    (/\ op.name = "parse_frame"
     /\ frame # <<>>
     /\ \E i \in Covered(frame), k \in 0..7 : received_frame = Flipped(frame, i, k))
    => received_frame_details.is_none

\* C3 - truncation rejection: parse_frame rejects every proper prefix of a
\* frame create_frame returned, and every buffer that does not end in 0x55.
C3_TruncationRejected ==
    (/\ op.name = "parse_frame"
     /\ frame # <<>>
     /\ \/ received_frame \in Prefixes(frame)
        \/ received_frame = <<>>
        \/ received_frame[Len(received_frame)] # 85)
    => received_frame_details.is_none

\* C4 - ARQ exhaustion: a send attempt configured with max_retries = n that
\* gets no acknowledgment transmits n + 1 times and ends in RetriesExhausted.
C4_RetriesExhausted ==
    (/\ op.name = "transmit"
     /\ raised = ""
     /\ ~ack_pending
     /\ retransmission.max_retries >= 0)
    => (/\ Len(modem_sent) = retransmission.max_retries + 1
        /\ result = "RetriesExhausted")

\* C5 - ARQ success: a send attempt whose first transmission is answered by a
\* matching ACK transmits exactly once and ends in Acknowledged.
C5_Acknowledged ==
    (/\ op.name = "transmit"
     /\ raised = ""
     /\ ack_pending)
    => (/\ Len(modem_sent) = 1
        /\ result = "Acknowledged")

\* C6 - size boundary: create_frame raises ValueError and returns no frame for
\* a payload longer than 255 bytes, and returns a frame for a payload of at
\* most 255 bytes and a 16-bit destination.
C6_SizeBoundary ==
    op.name = "create_frame"
    => (/\ Len(payload) > 255 => (raised = "ValueError" /\ frame = <<>>)
        /\ (Len(payload) <= 255 /\ destination_id \in 0..65535)
              => (raised = "" /\ frame # <<>>))

C6_Witness ==
    /\ op.name = "create_frame"
    /\ Len(payload) = 256
    /\ raised = "ValueError"
    /\ frame = <<>>

\* C7 - sequence wrap: in a run of successful create_frame calls of one
\* instance, frame 257 carries the sequence number of frame 1; the sequence
\* numbers repeat with period 256 and no shorter one.
C7_SequenceWrap ==
    \A n \in Instances :
        advances[n] = Len(emitted[n])
        => (/\ \A i \in 257..Len(emitted[n]) : emitted[n][i] = emitted[n][i - 256]
            /\ \A i \in 2..Len(emitted[n]) : i <= 256 => emitted[n][i] # emitted[n][1])

C7_Witness ==
    /\ Len(emitted["sender"]) >= 257
    /\ advances["sender"] = Len(emitted["sender"])

\* C8 - sequence advance: a create_frame call that returns a frame has set
\* sequence_number to (previous + 1) mod 256, the frame's sequence byte is the
\* new value, and the first frame of a fresh instance carries 1.
C8_SequenceAdvance ==
    [][\A n \in Instances :
          (op'.name = "create_frame" /\ op'.self = n /\ raised' = "")
          => (/\ sequence_number'[n] = (sequence_number[n] + 1) % 256
              /\ frame'[6] = sequence_number'[n]
              /\ advances[n] = 0 => frame'[6] = 1)]_vars

C8_Witness ==
    /\ op.name = "create_frame"
    /\ raised = ""
    /\ advances["sender"] = 256
    /\ sequence_number["sender"] = 0
    /\ frame[6] = 0

\* C9 - parse_frame and retransmit_strategy leave sequence_number and
\* device_id alone: sequence_number is the number of advances made by
\* create_frame, mod 256, whatever calls were interleaved.
C9_DecodeKeepsSequence ==
    /\ [](\A n \in Instances : sequence_number[n] = advances[n] % 256)
    /\ [][op'.name \in {"parse_frame", "retransmit_strategy"}
             => UNCHANGED <<sequence_number, device_id>>]_vars

C9_Witness ==
    /\ op.name = "parse_frame"
    /\ received_frame_details.is_none
    /\ received_frame # <<>>
    /\ advances["sender"] >= 2

\* C10 - parse_frame rejects every buffer whose declared payload length, with
\* the 7 bytes before the payload, the checksum and the footer, exceeds the
\* buffer.
C10_LengthMustFit ==
    (/\ op.name = "parse_frame"
     /\ Len(received_frame) >= 7
     /\ 7 + received_frame[7] + 2 + 1 > Len(received_frame))
    => received_frame_details.is_none

\* whether v is a byte string
IsBytes(v) == \A i \in 1..Len(v) : v[i] \in 0..255

\* C11 - parse_frame is total: on every buffer, the empty one and those under
\* 10 bytes included, it raises nothing and returns None or a populated frame.
C11_ParseTotal ==
    op.name = "parse_frame"
    => (/\ raised = ""
        /\ \/ received_frame_details = None
           \/ (/\ ~received_frame_details.is_none
               /\ received_frame_details.source_id \in 0..65535
               /\ received_frame_details.destination_id \in 0..65535
               /\ received_frame_details.sequence_number \in 0..255
               /\ IsBytes(received_frame_details.payload)))

C11_Witness ==
    /\ op.name = "parse_frame"
    /\ Len(received_frame) \in 1..9
    /\ received_frame[1] = 170
    /\ raised = ""
    /\ received_frame_details = None

\* C12 - wire layout: a frame create_frame returns for a 16-bit destination is
\* 10 + len(payload) bytes long: 0xAA, device_id big-endian, destination_id
\* big-endian, the sequence number, len(payload), the payload, two checksum
\* bytes, 0x55.
C12_WireLayout ==
    (/\ op.name = "create_frame"
     /\ raised = ""
     /\ destination_id \in 0..65535)
    => (/\ Len(frame) = 10 + Len(payload)
        /\ frame[1] = 170
        /\ frame[2] * 256 + frame[3] = device_id[op.self]
        /\ frame[2] \in 0..255 /\ frame[3] \in 0..255
        /\ frame[4] * 256 + frame[5] = destination_id
        /\ frame[4] \in 0..255 /\ frame[5] \in 0..255
        /\ frame[6] = sequence_number[op.self]
        /\ frame[7] = Len(payload)
        /\ SubSeq(frame, 8, 7 + Len(payload)) = payload
        /\ frame[Len(frame) - 2] \in 0..255 /\ frame[Len(frame) - 1] \in 0..255
        /\ frame[Len(frame)] = 85)

C12_Witness ==
    /\ op.name = "create_frame"
    /\ raised = ""
    /\ destination_id = 22136
    /\ device_id["sender"] = 4660
    /\ payload = <<85, 1, 0>>
    /\ frame = <<170, 18, 52, 86, 120, 1, 3, 85, 1, 0, 0, 1, 85>>

\* C13 - device identity: an instance constructed with an explicit identity v
\* in 0..65535, 0 included, has device_id = v from then on, and every frame it
\* returns carries v as source ID.
C13_DeviceIdentity ==
    \A n \in Instances :
        device_id_arg[n] \in 0..65535
        => (/\ device_id[n] = device_id_arg[n]
            /\ (op.name = "create_frame" /\ op.self = n /\ raised = "")
                  => frame[2] * 256 + frame[3] = device_id_arg[n])

\* C14 - fail-fast on oversize payload: a create_frame call rejected for a
\* payload over 255 bytes raises ValueError, returns no bytes, leaves
\* sequence_number and device_id as they were and hands nothing to the modem;
\* the next frame returned carries the sequence number following the one the
\* counter held before the rejected call.
C14_OversizeFailsFast ==
    [][\A n \in Instances :
          /\ (op'.name = "create_frame" /\ op'.self = n /\ Len(payload') > 255)
             => (/\ raised' = "ValueError"
                 /\ frame' = <<>>
                 /\ sequence_number' = sequence_number
                 /\ device_id' = device_id
                 /\ modem_sent' = modem_sent)
          /\ (/\ op.name = "create_frame" /\ op.self = n /\ Len(payload) > 255
              /\ op'.name = "create_frame" /\ op'.self = n /\ raised' = "")
             => (/\ Len(emitted[n]) > 0
                    => frame'[6] = (emitted[n][Len(emitted[n])] + 1) % 256
                 /\ Len(emitted[n]) = 0 => frame'[6] = 1)]_vars

C14_Witness ==
    /\ op.name = "create_frame"
    /\ Len(payload) = 256
    /\ raised = "ValueError"
    /\ sequence_number["sender"] = 5
    /\ Len(emitted["sender"]) = 5

\* C15 - parse_frame returns None for every buffer shorter than 10 bytes, for
\* every buffer not starting with 0xAA and for every buffer not ending in
\* 0x55, whatever the other bytes are.
C15_DelimitersAndMinimum ==
    (/\ op.name = "parse_frame"
     /\ \/ Len(received_frame) < 10
        \/ received_frame[1] # 170
        \/ received_frame[Len(received_frame)] # 85)
    => received_frame_details = None

C15_Witness ==
    /\ op.name = "parse_frame"
    /\ Len(received_frame) >= 10
    /\ received_frame[1] # 170
    /\ received_frame[Len(received_frame)] = 85
    /\ SubSeq(received_frame, Len(received_frame) - 2, Len(received_frame) - 1) = <<0, 1>>
    /\ received_frame_details = None

\* C16 - checksum consistency: the checksum create_frame embeds is the value
\* parse_frame computes, and parse_frame returns None for every buffer whose
\* two bytes before the footer differ from the value it computes; so a frame
\* with either checksum byte altered is rejected.
C16_ChecksumConsistent ==
    /\ (op.name = "create_frame" /\ raised = "")
          => unpack_H(Slice(frame, -3, -1)) = calculated_crc
    /\ (/\ op.name = "parse_frame"
        /\ Len(received_frame) >= 3
        /\ unpack_H(Slice(received_frame, -3, -1)) # calculated_crc)
          => received_frame_details = None

C16_Witness ==
    /\ op.name = "parse_frame"
    /\ frame # <<>>
    /\ \E i \in {Len(frame) - 3, Len(frame) - 2}, k \in 0..7 :
          received_frame = Flipped(frame, i, k)
    /\ received_frame_details = None

\* C17 - instance isolation: a call on one instance changes neither the
\* sequence_number nor the device_id of the other, also when it parses a frame
\* the other built; the k-th frame an instance returns carries k mod 256
\* whatever the other instance does.
C17_InstanceIsolation ==
    /\ [][\A n \in Instances :
             op'.self # n
             => (sequence_number'[n] = sequence_number[n] /\ device_id'[n] = device_id[n])]_vars
    /\ [](\A n \in Instances :
             advances[n] = Len(emitted[n])
             => \A k \in 1..Len(emitted[n]) : emitted[n][k] = k % 256)

C17_Witness ==
    /\ Len(emitted["sender"]) >= 256
    /\ Len(emitted["receiver"]) >= 1
    /\ op = [name |-> "parse_frame", self |-> "sender"]
    /\ ~received_frame_details.is_none
    /\ received_frame_details.source_id = device_id["receiver"]
    /\ received_frame_details.destination_id = device_id["sender"]

\* C18 - no sequence number is consumed by a failed encode: a create_frame
\* call that raises, for whatever reason, leaves sequence_number as it was.
C18_FailedEncodeKeepsCounter ==
    [][(op'.name = "create_frame" /\ raised' # "")
          => sequence_number' = sequence_number]_vars

\* the wire layout filled with the fields d that parse_frame returned, the
\* length byte len and the checksum bytes sum
Serialised(d, len, sum) ==
    FRAME_HEADER \o pack_H(d.source_id) \o pack_H(d.destination_id)
        \o <<d.sequence_number, len>> \o d.payload \o sum \o FRAME_FOOTER

\* C19 - accepted buffers are canonical: a buffer b that parse_frame accepts is
\* 10 + b[6] bytes long, the payload returned has b[6] bytes, and the returned
\* fields laid out with the same checksum give b back byte for byte.
C19_AcceptedIsCanonical ==
    (op.name = "parse_frame" /\ ~received_frame_details.is_none)
    => (/\ Len(received_frame) = 10 + received_frame[7]
        /\ Len(received_frame_details.payload) = received_frame[7]
        /\ Serialised(received_frame_details, received_frame[7],
                      Slice(received_frame, -3, -1)) = received_frame)

====
